---- MODULE Spec2Model ----
(***************************************************************************)
(* Model of password-generator/Password_Generator.py: generate_password    *)
(* and evaluate_password_strength.                                         *)
(*                                                                         *)
(* Characters are one-character strings.  Each of the four alphabets of    *)
(* the string module is represented by one member, and OtherChar stands    *)
(* for any character outside the four alphabets.  The sizes the evaluator  *)
(* adds up (26, 26, 10, len(string.punctuation)) are kept as in the code.  *)
(***************************************************************************)
EXTENDS Integers, Sequences, FiniteSets

\* ---------------------------------------------------------------- bounds

\* Largest password length a caller requests.
MaxLength == 9

\* Longest password handed to the evaluator.
MaxEvalLength == 31

\* An evaluated password starts with at most MaxVaried freely chosen
\* characters; every later character repeats the one before it.
MaxVaried == 4

\* ------------------------------------------------------ program constants

MIN_LENGTH == 8

ascii_lowercase == <<"a">>
ascii_uppercase == <<"A">>
digit_chars == <<"0">>
punctuation == <<"!">>
OtherChar == " "

\* Lengths a caller passes: negative, zero, just below the minimum, and
\* the minimum up to MaxLength.
RequestedLengths == {-1, 0, MIN_LENGTH - 1} \cup (MIN_LENGTH..MaxLength)

\* ------------------------------------------------------------------ state

VARIABLES
    pc,               \* position of the generate_password call
    preferences,      \* the arguments the caller passed
    length,           \* local `length` of generate_password
    password,         \* local list `password`
    remaining_length, \* local `remaining_length`
    filled,           \* fill draws done so far (the generator's loop index)
    i,                \* loop index of the shuffle
    result,           \* the joined string generate_password returned
    pw,               \* argument `password` of evaluate_password_strength
    strength,         \* the dictionary it returned for pw
    alt_pw,           \* a rearrangement of pw that was evaluated as well
    alt_strength      \* the dictionary returned for alt_pw

genVars == <<pc, preferences, length, password, remaining_length, filled, i, result>>

evalVars == <<pw, strength, alt_pw, alt_strength>>

vars == <<genVars, evalVars>>

NoPreferences == [length |-> 0, use_uppercase |-> FALSE,
                  use_numbers |-> FALSE, use_symbols |-> FALSE]

\* ------------------------------------------------------- generate_password

\* Alphabets of the call (lines 36-39): '' for a class that is switched off.
lowercase_letters == ascii_lowercase
uppercase_letters == IF preferences.use_uppercase THEN ascii_uppercase ELSE <<>>
digits == IF preferences.use_numbers THEN digit_chars ELSE <<>>
symbols == IF preferences.use_symbols THEN punctuation ELSE <<>>

\* Mutation: the digits are added whatever use_numbers says.
all_characters_EveryDigit ==
    lowercase_letters \o uppercase_letters \o digit_chars \o symbols

\* Mutation: the lowercase letters are left out of the combined alphabet.
all_characters_NoLowercase == uppercase_letters \o digits \o symbols

all_characters == lowercase_letters \o uppercase_letters \o digits \o symbols

\* secrets.choice(seq): any element of a non-empty sequence.
Choices(seq) == {seq[k] : k \in 1..Len(seq)}

\* x[a], x[b] = x[b], x[a]
Swap(s, a, b) == [s EXCEPT ![a] = s[b], ![b] = s[a]]

GenInit ==
    /\ pc = "idle"
    /\ preferences = NoPreferences
    /\ length = 0
    /\ password = <<>>
    /\ remaining_length = 0
    /\ filled = 0
    /\ i = 0
    /\ result = <<>>

\* main() calls generate_password with the caller's preferences.
Call ==
    /\ pc = "idle"
    /\ \E len \in RequestedLengths, up \in BOOLEAN, nu \in BOOLEAN, sy \in BOOLEAN :
          /\ preferences' = [length |-> len, use_uppercase |-> up,
                             use_numbers |-> nu, use_symbols |-> sy]
          /\ length' = len
    /\ pc' = "clamp"
    /\ UNCHANGED <<password, remaining_length, filled, i, result>>
    /\ UNCHANGED evalVars

\* Mutation: the minimum length is not enforced.
Clamp_Missing ==
    /\ pc = "clamp"
    /\ pc' = "check"
    /\ UNCHANGED <<preferences, length, password, remaining_length, filled, i, result>>
    /\ UNCHANGED evalVars

\* Lines 31-33.
Clamp ==
    /\ pc = "clamp"
    /\ length' = IF length < MIN_LENGTH THEN MIN_LENGTH ELSE length
    /\ pc' = "check"
    /\ UNCHANGED <<preferences, password, remaining_length, filled, i, result>>
    /\ UNCHANGED evalVars

\* Lines 45-46: raise ValueError when the combined alphabet is empty.
CheckAlphabet ==
    /\ pc = "check"
    /\ pc' = IF all_characters = <<>> THEN "raised" ELSE "lower"
    /\ UNCHANGED <<preferences, length, password, remaining_length, filled, i, result>>
    /\ UNCHANGED evalVars

\* Lines 49-51.
DrawLower ==
    /\ pc = "lower"
    /\ \E c \in Choices(lowercase_letters) : password' = <<c>>
    /\ pc' = "upper"
    /\ UNCHANGED <<preferences, length, remaining_length, filled, i, result>>
    /\ UNCHANGED evalVars

\* Mutation: the mandatory uppercase draw is forgotten.
DrawUpper_Skipped ==
    /\ pc = "upper"
    /\ pc' = "digit"
    /\ UNCHANGED <<preferences, length, password, remaining_length, filled, i, result>>
    /\ UNCHANGED evalVars

\* Lines 53-54.
DrawUpper ==
    /\ pc = "upper"
    /\ IF preferences.use_uppercase
       THEN \E c \in Choices(uppercase_letters) : password' = Append(password, c)
       ELSE password' = password
    /\ pc' = "digit"
    /\ UNCHANGED <<preferences, length, remaining_length, filled, i, result>>
    /\ UNCHANGED evalVars

\* Lines 55-56.
DrawDigit ==
    /\ pc = "digit"
    /\ IF preferences.use_numbers
       THEN \E c \in Choices(digits) : password' = Append(password, c)
       ELSE password' = password
    /\ pc' = "symbol"
    /\ UNCHANGED <<preferences, length, remaining_length, filled, i, result>>
    /\ UNCHANGED evalVars

\* Lines 57-58 and 61.
DrawSymbol ==
    /\ pc = "symbol"
    /\ IF preferences.use_symbols
       THEN \E c \in Choices(symbols) : password' = Append(password, c)
       ELSE password' = password
    /\ remaining_length' = length - Len(password')
    /\ filled' = 0
    /\ pc' = "fill"
    /\ UNCHANGED <<preferences, length, i, result>>
    /\ UNCHANGED evalVars

\* Line 62, one draw of the generator expression.
FillOne ==
    /\ pc = "fill"
    /\ filled < remaining_length
    /\ \E c \in Choices(all_characters) : password' = Append(password, c)
    /\ filled' = filled + 1
    /\ UNCHANGED <<pc, preferences, length, remaining_length, i, result>>
    /\ UNCHANGED evalVars

\* Line 62 exhausted: enter SystemRandom().shuffle(password) (line 65).
StartShuffle ==
    /\ pc = "fill"
    /\ filled >= remaining_length
    /\ i' = Len(password)
    /\ pc' = "shuffle"
    /\ UNCHANGED <<preferences, length, password, remaining_length, filled, result>>
    /\ UNCHANGED evalVars

\* One iteration of random.shuffle: j = randbelow(i + 1); x[i], x[j] = x[j], x[i].
ShuffleStep ==
    /\ pc = "shuffle"
    /\ i >= 2
    /\ \E j \in 1..i : password' = Swap(password, i, j)
    /\ i' = i - 1
    /\ UNCHANGED <<pc, preferences, length, remaining_length, filled, result>>
    /\ UNCHANGED evalVars

\* Line 68: join and return.
Return ==
    /\ pc = "shuffle"
    /\ i < 2
    /\ result' = password
    /\ pc' = "returned"
    /\ UNCHANGED <<preferences, length, password, remaining_length, filled, i>>
    /\ UNCHANGED evalVars


\* ---------------------------------------------- evaluate_password_strength

max_score == 14

\* len(string.punctuation)
PunctuationSize == 32

\* Mutation: only the first character is looked at.
HasAny_FirstOnly(alphabet, p) == Len(p) > 0 /\ p[1] \in Choices(alphabet)

\* any(c in alphabet for c in password)
HasAny(alphabet, p) == \E k \in 1..Len(p) : p[k] \in Choices(alphabet)

\* Mutation: the top length tier gives 6 points.
LengthTier_SixPoints(n) ==
    IF n >= 20 THEN [points |-> 6, note |-> <<"Excellent length">>]
    ELSE IF n >= 16 THEN [points |-> 4, note |-> <<"Very good length">>]
    ELSE IF n >= 12 THEN [points |-> 3, note |-> <<"Good length">>]
    ELSE IF n >= 10 THEN [points |-> 2, note |-> <<"Moderate length">>]
    ELSE IF n >= 8 THEN [points |-> 1, note |-> <<"Minimum acceptable length">>]
    ELSE [points |-> 0, note |-> <<"Password too short">>]

\* Mutation: the points of the 12 and 10 tiers are exchanged.
LengthTier_Exchanged(n) ==
    IF n >= 20 THEN [points |-> 5, note |-> <<"Excellent length">>]
    ELSE IF n >= 16 THEN [points |-> 4, note |-> <<"Very good length">>]
    ELSE IF n >= 12 THEN [points |-> 2, note |-> <<"Good length">>]
    ELSE IF n >= 10 THEN [points |-> 3, note |-> <<"Moderate length">>]
    ELSE IF n >= 8 THEN [points |-> 1, note |-> <<"Minimum acceptable length">>]
    ELSE [points |-> 0, note |-> <<"Password too short">>]

\* Lines 80-96: points and note of the length tier.
LengthTier(n) ==
    IF n >= 20 THEN [points |-> 5, note |-> <<"Excellent length">>]
    ELSE IF n >= 16 THEN [points |-> 4, note |-> <<"Very good length">>]
    ELSE IF n >= 12 THEN [points |-> 3, note |-> <<"Good length">>]
    ELSE IF n >= 10 THEN [points |-> 2, note |-> <<"Moderate length">>]
    ELSE IF n >= 8 THEN [points |-> 1, note |-> <<"Minimum acceptable length">>]
    ELSE [points |-> 0, note |-> <<"Password too short">>]

\* Mutation: a missing class is not reported.
ClassCheck_NoNote(alphabet, missing, p) ==
    IF HasAny(alphabet, p)
    THEN [points |-> 1, notes |-> <<>>]
    ELSE [points |-> 0, notes |-> <<>>]

\* Lines 99-117: one class check, +1 or a "Missing ..." note.
ClassCheck(alphabet, missing, p) ==
    IF HasAny(alphabet, p)
    THEN [points |-> 1, notes |-> <<>>]
    ELSE [points |-> 0, notes |-> <<(<<missing>>)>>]

\* Lines 120-128.
CharSetSize(p) ==
    (IF HasAny(ascii_lowercase, p) THEN 26 ELSE 0)
    + (IF HasAny(ascii_uppercase, p) THEN 26 ELSE 0)
    + (IF HasAny(digit_chars, p) THEN 10 ELSE 0)
    + (IF HasAny(punctuation, p) THEN PunctuationSize ELSE 0)

\* One bit, in the unit entropies are kept in (millionths of a bit).
Bit == 1000000

\* math.log2 on the sizes CharSetSize can take, in millionths of a bit
\* (rounded down; log2(32) is exact).
Log2(n) ==
    CASE n = 10 -> 3321928
      [] n = 26 -> 4700439
      [] n = 32 -> 5000000
      [] n = 36 -> 5169925
      [] n = 42 -> 5392317
      [] n = 52 -> 5700439
      [] n = 58 -> 5857980
      [] n = 62 -> 5954196
      [] n = 68 -> 6087462
      [] n = 84 -> 6392317
      [] n = 94 -> 6554588

\* Line 130.
Entropy(p) == IF CharSetSize(p) > 0 THEN Len(p) * Log2(CharSetSize(p)) ELSE 0

\* f"{entropy:.1f}": the entropy in tenths of a bit, rounded.
OneDecimal(e) == (e + (Bit \div 20)) \div (Bit \div 10)

\* Mutation: the 40-bit tier is entered above 40 bits only.
EntropyTier_StrictForty(e) ==
    IF e >= 100 * Bit THEN [points |-> 5, notes |-> <<(<<"Very high entropy", OneDecimal(e)>>)>>]
    ELSE IF e >= 80 * Bit THEN [points |-> 4, notes |-> <<(<<"High entropy", OneDecimal(e)>>)>>]
    ELSE IF e >= 60 * Bit THEN [points |-> 3, notes |-> <<(<<"Good entropy", OneDecimal(e)>>)>>]
    ELSE IF e > 40 * Bit THEN [points |-> 2, notes |-> <<(<<"Moderate entropy", OneDecimal(e)>>)>>]
    ELSE IF e > 0 THEN [points |-> 1, notes |-> <<(<<"Low entropy", OneDecimal(e)>>)>>]
    ELSE [points |-> 0, notes |-> <<>>]

\* Lines 133-147: points and note of the entropy tier.
EntropyTier(e) ==
    IF e >= 100 * Bit THEN [points |-> 5, notes |-> <<(<<"Very high entropy", OneDecimal(e)>>)>>]
    ELSE IF e >= 80 * Bit THEN [points |-> 4, notes |-> <<(<<"High entropy", OneDecimal(e)>>)>>]
    ELSE IF e >= 60 * Bit THEN [points |-> 3, notes |-> <<(<<"Good entropy", OneDecimal(e)>>)>>]
    ELSE IF e >= 40 * Bit THEN [points |-> 2, notes |-> <<(<<"Moderate entropy", OneDecimal(e)>>)>>]
    ELSE IF e > 0 THEN [points |-> 1, notes |-> <<(<<"Low entropy", OneDecimal(e)>>)>>]
    ELSE [points |-> 0, notes |-> <<>>]

\* Line 151: (score / max_score) * 100, kept as the exact fraction num/den.
Percentage(score) == [num |-> score * 100, den |-> max_score]

\* percentage >= t
AtLeast(percentage, t) == percentage.num >= t * percentage.den

\* Mutation: Moderate starts above 50 percent only.
Rating_StrictFifty(percentage) ==
    IF AtLeast(percentage, 90) THEN [strength |-> "Excellent", color |-> "92m"]
    ELSE IF AtLeast(percentage, 70) THEN [strength |-> "Strong", color |-> "92m"]
    ELSE IF percentage.num > 50 * percentage.den
         THEN [strength |-> "Moderate", color |-> "93m"]
    ELSE IF AtLeast(percentage, 30) THEN [strength |-> "Weak", color |-> "91m"]
    ELSE [strength |-> "Very Weak", color |-> "91m"]

\* Lines 153-167.
Rating(percentage) ==
    IF AtLeast(percentage, 90) THEN [strength |-> "Excellent", color |-> "92m"]
    ELSE IF AtLeast(percentage, 70) THEN [strength |-> "Strong", color |-> "92m"]
    ELSE IF AtLeast(percentage, 50) THEN [strength |-> "Moderate", color |-> "93m"]
    ELSE IF AtLeast(percentage, 30) THEN [strength |-> "Weak", color |-> "91m"]
    ELSE [strength |-> "Very Weak", color |-> "91m"]

\* Lines 70-180.
evaluate_password_strength(p) ==
    LET lengthTier == LengthTier(Len(p))
        lower == ClassCheck(ascii_lowercase, "Missing lowercase letters", p)
        upper == ClassCheck(ascii_uppercase, "Missing uppercase letters", p)
        number == ClassCheck(digit_chars, "Missing numbers", p)
        special == ClassCheck(punctuation, "Missing special characters", p)
        entropy == Entropy(p)
        entropyTier == EntropyTier(entropy)
        score == lengthTier.points + lower.points + upper.points
                 + number.points + special.points + entropyTier.points
        percentage == Percentage(score)
        rating == Rating(percentage)
    IN  [score |-> score,
         max_score |-> max_score,
         percentage |-> percentage,
         strength |-> rating.strength,
         color |-> rating.color,
         reset |-> "0m",
         feedback |-> <<lengthTier.note>> \o lower.notes \o upper.notes
                      \o number.notes \o special.notes \o entropyTier.notes,
         entropy |-> entropy]

\* Characters a caller may pass to the evaluator.
Characters ==
    Choices(ascii_lowercase) \cup Choices(ascii_uppercase)
    \cup Choices(digit_chars) \cup Choices(punctuation) \cup {OtherChar}

EvalInit ==
    /\ pw = <<>>
    /\ strength = evaluate_password_strength(<<>>)
    /\ alt_pw = <<>>
    /\ alt_strength = evaluate_password_strength(<<>>)

\* The caller evaluates the password extended by one character
\* (main, line 278: strength = evaluate_password_strength(password)).
EvaluateExtended ==
    /\ Len(pw) < MaxEvalLength
    /\ \E c \in Characters :
          /\ IF Len(pw) < MaxVaried THEN TRUE ELSE c = pw[Len(pw)]
          /\ pw' = Append(pw, c)
    /\ strength' = evaluate_password_strength(pw')
    /\ alt_pw' = pw'
    /\ alt_strength' = strength'
    /\ UNCHANGED genVars

\* The caller evaluates pw with two neighbouring characters exchanged.
EvaluateRearranged ==
    /\ \E k \in 1..(Len(pw) - 1) :
          /\ pw[k] # pw[k + 1]
          /\ alt_pw' = Swap(pw, k, k + 1)
    /\ alt_strength' = evaluate_password_strength(alt_pw')
    /\ UNCHANGED <<pw, strength>>
    /\ UNCHANGED genVars

Init == GenInit /\ EvalInit

GenNext ==
    \/ Call
    \/ Clamp
    \/ CheckAlphabet
    \/ DrawLower
    \/ DrawUpper
    \/ DrawDigit
    \/ DrawSymbol
    \/ FillOne
    \/ StartShuffle
    \/ ShuffleStep
    \/ Return

EvalNext ==
    \/ EvaluateExtended
    \/ EvaluateRearranged

\* generate_password under every input and every random outcome.
GenSpec == Init /\ [][GenNext]_vars

\* evaluate_password_strength on the bounded family of passwords.
EvalSpec == Init /\ [][EvalNext]_vars

\* ------------------------------------------------- properties: vocabulary

\* The characters occurring in a sequence.
CharsOf(s) == {s[k] : k \in 1..Len(s)}

\* t is a rearrangement of s: over the positions where the two differ, every
\* character occurs as often in t as in s.
SameCharacters(s, t) ==
    /\ Len(s) = Len(t)
    /\ LET differ == {k \in 1..Len(s) : s[k] # t[k]}
       IN  \A c \in {s[k] : k \in differ} \cup {t[k] : k \in differ} :
               Cardinality({k \in differ : s[k] = c})
                 = Cardinality({k \in differ : t[k] = c})

Lowercase == CharsOf(ascii_lowercase)
Uppercase == CharsOf(ascii_uppercase)
Digits == CharsOf(digit_chars)
Symbols == CharsOf(punctuation)

\* The classes the caller enabled, besides lowercase.
EnabledClasses ==
    (IF preferences.use_uppercase THEN {Uppercase} ELSE {})
    \cup (IF preferences.use_numbers THEN {Digits} ELSE {})
    \cup (IF preferences.use_symbols THEN {Symbols} ELSE {})

ActiveAlphabet == Lowercase \cup UNION EnabledClasses

\* --------------------------------------------- properties: generate_password

\* C1: for a requested length >= 8 and any flags, whatever the draws and the
\* shuffle, the returned password has exactly the requested length, holds a
\* lowercase letter and holds a character of every enabled class.
C1_LengthAndClasses ==
    (pc = "returned" /\ preferences.length >= MIN_LENGTH) =>
        /\ Len(result) = preferences.length
        /\ CharsOf(result) \cap Lowercase # {}
        /\ \A class \in EnabledClasses : CharsOf(result) \cap class # {}

\* C1 witness: a 9-character request with every class enabled has returned,
\* and the shuffle has moved a symbol to the front.
C1_Witness ==
    /\ pc = "returned"
    /\ preferences.length = MIN_LENGTH + 1
    /\ preferences.use_uppercase /\ preferences.use_numbers /\ preferences.use_symbols
    /\ result[1] \in Symbols

\* C2: for a requested length < 8 (0 and negative included) and any flags,
\* the call does not fail and returns exactly 8 characters, not the requested
\* number.
C2_ShortLengthClamped ==
    preferences.length < MIN_LENGTH =>
        /\ pc # "raised"
        /\ pc = "returned" =>
              /\ Len(result) = 8
              /\ Len(result) # preferences.length

\* C2 witness: a request for -1 characters has returned 8 characters.
C2_Witness ==
    /\ pc = "returned"
    /\ preferences.length = -1
    /\ Len(result) = 8

\* The list before the shuffle: the mandatory draws in the order lowercase,
\* uppercase, digit, symbol (each enabled one), then the fill draws.
MandatoryThenFill(s) ==
    LET classes == <<Lowercase>>
                   \o (IF preferences.use_uppercase THEN <<Uppercase>> ELSE <<>>)
                   \o (IF preferences.use_numbers THEN <<Digits>> ELSE <<>>)
                   \o (IF preferences.use_symbols THEN <<Symbols>> ELSE <<>>)
    IN  /\ Len(s) >= Len(classes)
        /\ \A k \in 1..Len(classes) : s[k] \in classes[k]
        /\ \A k \in (Len(classes) + 1)..Len(s) : s[k] \in ActiveAlphabet

\* C3: every character of the returned password is in the active alphabet
\* (lowercase plus exactly the enabled classes), and the returned password is
\* a rearrangement of the mandatory draws followed by the fill draws: the
\* list has that shape when the shuffle starts, every step from there on
\* keeps its characters, and the list is what is returned.
C3_ActiveAlphabetOnly ==
    [][ /\ (pc = "fill" /\ pc' = "shuffle") => MandatoryThenFill(password)
        /\ pc' \in {"shuffle", "returned"} => SameCharacters(password, password')
        /\ pc' = "returned" =>
              /\ result' = password'
              /\ CharsOf(result') \subseteq ActiveAlphabet' ]_vars

\* C3 witness: numbers were disabled, symbols enabled, and the returned
\* password starts with a symbol and ends with a lowercase letter.
C3_Witness ==
    /\ pc = "returned"
    /\ ~preferences.use_numbers /\ preferences.use_symbols
    /\ result[1] \in Symbols
    /\ result[Len(result)] \in Lowercase

\* C4: generate_password never raises the empty-alphabet ValueError, for
\* any length and flags.
C4_NeverInvalidConfiguration == pc # "raised"

\* C4 witness: a call with all three flags off has passed the alphabet check
\* and returned.
C4_Witness ==
    /\ pc = "returned"
    /\ ~preferences.use_uppercase /\ ~preferences.use_numbers /\ ~preferences.use_symbols
    /\ CharsOf(result) = Lowercase

\* ------------------------------------ properties: evaluate_password_strength

\* The classes observed in a password, as <<alphabet, size, name>>.
ObservedClasses(p) ==
    {class \in {<<Lowercase, 26, "lowercase letters">>,
                <<Uppercase, 26, "uppercase letters">>,
                <<Digits, 10, "numbers">>,
                <<Symbols, 32, "special characters">>} :
        CharsOf(p) \cap class[1] # {}}

\* Sum of the second components of a set of classes.
RECURSIVE SizeSum(_)
SizeSum(classes) ==
    IF classes = {} THEN 0
    ELSE LET class == CHOOSE x \in classes : TRUE
         IN  class[2] + SizeSum(classes \ {class})

\* The length sub-score.
LengthPoints(n) ==
    CASE n >= 20 -> 5
      [] n \in 16..19 -> 4
      [] n \in 12..15 -> 3
      [] n \in 10..11 -> 2
      [] n \in 8..9 -> 1
      [] n < 8 -> 0

\* The entropy sub-score, for an entropy e in millionths of a bit.
EntropyPoints(e) ==
    CASE e >= 100000000 -> 5
      [] e >= 80000000 /\ e < 100000000 -> 4
      [] e >= 60000000 /\ e < 80000000 -> 3
      [] e >= 40000000 /\ e < 60000000 -> 2
      [] e > 0 /\ e < 40000000 -> 1
      [] e <= 0 -> 0

\* The texts of a feedback list.
Texts(feedback) == [k \in 1..Len(feedback) |-> feedback[k][1]]

\* C5: the report does not depend on the order of the characters: a
\* rearrangement of a password gets the identical report (score, percentage,
\* rating, entropy, feedback).
C5_OrderIndependent ==
    SameCharacters(pw, alt_pw) => alt_strength = strength

\* C5 witness: a password of 20 or more characters with all four classes
\* and a different arrangement of it have both been evaluated.
C5_Witness ==
    /\ Len(pw) >= 20
    /\ Cardinality(ObservedClasses(pw)) = 4
    /\ alt_pw # pw
    /\ SameCharacters(pw, alt_pw)
    /\ alt_strength.score = 14

\* C6: every input gets a report whose score is the sum of the length
\* sub-score (0..5), the class-diversity sub-score (0..4) and the entropy
\* sub-score (0..5), so lies in 0..14, with max_score 14; the empty
\* password gets score 0, entropy 0 and the lowest rating.
C6_ScoreIsBoundedSum ==
    /\ strength.score = LengthPoints(Len(pw)) + Cardinality(ObservedClasses(pw))
                         + EntropyPoints(strength.entropy)
    /\ strength.score \in 0..14
    /\ strength.max_score = 14
    /\ pw = <<>> =>
          /\ strength.score = 0
          /\ strength.entropy = 0
          /\ strength.strength = "Very Weak"

\* C6 witness: a password holding a character outside all four classes got
\* a score of 10 or more.
C6_Witness ==
    /\ OtherChar \in CharsOf(pw)
    /\ strength.score >= 10

\* C7: the entropy is len * log2(S), S the summed sizes of the observed
\* classes, and 0 when S = 0; the entropy sub-score is the one tier of
\* 100/80/60/40/>0 the entropy falls in, with an entropy note exactly when
\* the entropy is positive.  Eight lowercase characters: 37.6 bits, sub-score
\* 1, total 3; twenty characters of all four classes: 131.1 bits, total 14.
C7_EntropyAndTier ==
    LET S == SizeSum(ObservedClasses(pw))
        notes == Texts(strength.feedback)
        tier == strength.score - LengthPoints(Len(pw)) - Cardinality(ObservedClasses(pw))
    IN  /\ strength.entropy = IF S = 0 THEN 0 ELSE Len(pw) * Log2(S)
        /\ tier = EntropyPoints(strength.entropy)
        /\ notes[Len(notes)] = CASE tier = 5 -> "Very high entropy"
                                  [] tier = 4 -> "High entropy"
                                  [] tier = 3 -> "Good entropy"
                                  [] tier = 2 -> "Moderate entropy"
                                  [] tier = 1 -> "Low entropy"
                                  [] tier = 0 -> notes[Len(notes)]
        /\ tier = 0 => \A k \in 1..Len(notes) :
              notes[k] \notin {"Very high entropy", "High entropy", "Good entropy",
                               "Moderate entropy", "Low entropy"}
        /\ (Len(pw) = 8 /\ CharsOf(pw) \subseteq Lowercase) =>
              /\ strength.entropy \in 37600000..37699999
              /\ tier = 1
              /\ strength.score = 3
        /\ (Len(pw) = 20 /\ S = 94) =>
              /\ strength.entropy \in 131000000..131999999
              /\ tier = 5
              /\ strength.score = 14

\* C7 witness: eight symbols, exactly 40 bits, got the 40-bit tier.
C7_Witness ==
    /\ Len(pw) = 8
    /\ CharsOf(pw) \subseteq Symbols
    /\ strength.entropy = 40000000
    /\ Texts(strength.feedback)[Len(strength.feedback)] = "Moderate entropy"

\* The rating of a score, by the score ranges of the claim.
RatingOfScore(score) ==
    CASE score \in 13..14 -> "Excellent"
      [] score \in 10..12 -> "Strong"
      [] score \in 7..9 -> "Moderate"
      [] score \in 5..6 -> "Weak"
      [] score \in 0..4 -> "Very Weak"

\* C8: percentage = score/14*100 and the rating follows from it alone:
\* scores 13..14 Excellent, 10..12 Strong, 7..9 Moderate (7 is exactly 50%),
\* 5..6 Weak, 0..4 Very Weak.
C8_RatingFromPercentage ==
    /\ strength.percentage.num * 14 = strength.score * 100 * strength.percentage.den
    /\ strength.strength = RatingOfScore(strength.score)

\* C8 witness: a score of 7, exactly 50 percent, rated Moderate.
C8_Witness ==
    /\ strength.score = 7
    /\ strength.percentage.num = 50 * strength.percentage.den
    /\ strength.strength = "Moderate"

\* The "Missing ..." notes of a password, in the order lowercase, uppercase,
\* digits, symbols.
MissingNotes(p) ==
    (IF CharsOf(p) \cap Lowercase = {} THEN <<"Missing lowercase letters">> ELSE <<>>)
    \o (IF CharsOf(p) \cap Uppercase = {} THEN <<"Missing uppercase letters">> ELSE <<>>)
    \o (IF CharsOf(p) \cap Digits = {} THEN <<"Missing numbers">> ELSE <<>>)
    \o (IF CharsOf(p) \cap Symbols = {} THEN <<"Missing special characters">> ELSE <<>>)

\* The length note of a password of n characters.
LengthNote(n) ==
    CASE n >= 20 -> "Excellent length"
      [] n \in 16..19 -> "Very good length"
      [] n \in 12..15 -> "Good length"
      [] n \in 10..11 -> "Moderate length"
      [] n \in 8..9 -> "Minimum acceptable length"
      [] n < 8 -> "Password too short"

\* C9: the feedback is: one length note; then, in the order lowercase,
\* uppercase, digits, symbols, a "Missing" note for exactly the classes the
\* password has no character of (the others give a diversity point each);
\* then one entropy note exactly when the entropy is positive.
C9_FeedbackOrder ==
    LET notes == Texts(strength.feedback)
        missing == MissingNotes(pw)
        rest == SubSeq(notes, 2 + Len(missing), Len(notes))
    IN  /\ Len(notes) >= 1 + Len(missing)
        /\ notes[1] = LengthNote(Len(pw))
        /\ SubSeq(notes, 2, 1 + Len(missing)) = missing
        /\ Len(rest) = IF strength.entropy > 0 THEN 1 ELSE 0
        /\ \A k \in 1..Len(rest) :
              rest[k] \in {"Very high entropy", "High entropy", "Good entropy",
                           "Moderate entropy", "Low entropy"}
        /\ strength.score - LengthPoints(Len(pw)) - EntropyPoints(strength.entropy)
             = 4 - Len(missing)

\* C9 witness: a password of 12 or more characters without uppercase letters
\* and without digits got a length note, the two notes, and an entropy note.
C9_Witness ==
    /\ Len(pw) >= 12
    /\ Texts(strength.feedback) = <<"Good length", "Missing uppercase letters",
                                    "Missing numbers", "Good entropy">>

\* Rank of a rating, lowest first.
Rank(rating) ==
    CASE rating = "Very Weak" -> 0
      [] rating = "Weak" -> 1
      [] rating = "Moderate" -> 2
      [] rating = "Strong" -> 3
      [] rating = "Excellent" -> 4

\* C10: appending a character never lowers the score, the entropy, the
\* percentage or the rating.
C10_MonotonicUnderExtension ==
    [][ (Len(pw') = Len(pw) + 1 /\ SubSeq(pw', 1, Len(pw)) = pw) =>
            /\ strength'.score >= strength.score
            /\ strength'.entropy >= strength.entropy
            /\ strength'.percentage.num * strength.percentage.den
                  >= strength.percentage.num * strength'.percentage.den
            /\ Rank(strength'.strength) >= Rank(strength.strength) ]_vars

\* C10 witness: appending characters has taken a password from the empty one
\* to the top score and rating.
C10_Witness ==
    /\ Len(pw) >= 16
    /\ alt_pw = pw
    /\ strength.score = 14
    /\ strength.strength = "Excellent"

====
